---- MODULE Spec2Model ----
(***************************************************************************)
(* Wine Fermentation Simulator (src/src/main.rs).                          *)
(*                                                                         *)
(* Strings are sequences of one-character strings, so that trim, parse,    *)
(* to_lowercase and eq_ignore_ascii_case are computed character by         *)
(* character.  An f64 is a record [cls, v]: cls is "fin", "nan", "inf" or  *)
(* "ninf", and a finite value is the integer v counted in units of 1/S.    *)
(***************************************************************************)
EXTENDS Integers, Sequences, FiniteSets, TLC

VARIABLES csv, pc, wine_data, grape_type, fermentation_days, container_type,
          sugar_content, temperature, climate, result_text, op, locals,
          previous

fields == <<grape_type, fermentation_days, container_type, sugar_content,
            temperature, climate>>
vars == <<csv, pc, wine_data, grape_type, fermentation_days, container_type,
          sugar_content, temperature, climate, result_text, op, locals,
          previous>>

----------------------------------------------------------------------------
(* Characters and strings *)

UpperChars == <<"A", "B", "C", "D", "E", "F", "G", "H", "I", "J", "K", "L", "M", "N", "O", "P", "Q", "R", "S", "T", "U", "V", "W", "X", "Y", "Z">>
LowerChars == <<"a", "b", "c", "d", "e", "f", "g", "h", "i", "j", "k", "l", "m", "n", "o", "p", "q", "r", "s", "t", "u", "v", "w", "x", "y", "z">>
DigitChars == <<"0", "1", "2", "3", "4", "5", "6", "7", "8", "9">>

IndexIn(c, s) == IF \E i \in 1..Len(s) : s[i] = c
                 THEN CHOOSE i \in 1..Len(s) : s[i] = c
                 ELSE 0

to_ascii_lowercase_char(c) ==
    IF IndexIn(c, UpperChars) > 0 THEN LowerChars[IndexIn(c, UpperChars)] ELSE c

to_ascii_lowercase(s) == [i \in 1..Len(s) |-> to_ascii_lowercase_char(s[i])]

\* str::to_lowercase; on the ASCII strings of the model it acts as the ASCII map
to_lowercase(s) == [i \in 1..Len(s) |-> to_ascii_lowercase_char(s[i])]

\* variant: the comparison respects case
eq_case_sensitive(a, b) == a = b

eq_ignore_ascii_case(a, b) ==
    /\ Len(a) = Len(b)
    /\ \A i \in 1..Len(a) :
          to_ascii_lowercase_char(a[i]) = to_ascii_lowercase_char(b[i])

IsWhitespace(c) == c = " "

RECURSIVE trim_start(_)
trim_start(s) == IF s # <<>> /\ IsWhitespace(Head(s)) THEN trim_start(Tail(s)) ELSE s

RECURSIVE trim_end(_)
trim_end(s) == IF s # <<>> /\ IsWhitespace(s[Len(s)])
               THEN trim_end(SubSeq(s, 1, Len(s) - 1)) ELSE s

trim(s) == trim_end(trim_start(s))

IsDigit(c) == IndexIn(c, DigitChars) > 0
DigitVal(c) == IndexIn(c, DigitChars) - 1
AllDigits(s) == \A i \in 1..Len(s) : IsDigit(s[i])

\* length of the longest prefix of s made of digits
RECURSIVE DigitPrefix(_)
DigitPrefix(s) == IF s # <<>> /\ IsDigit(Head(s)) THEN 1 + DigitPrefix(Tail(s)) ELSE 0

----------------------------------------------------------------------------
(* i32::from_str *)

I32Max == 2147483647
I32Min == -2147483647 - 1

Err == [ok |-> FALSE, v |-> 0]
Ok(x) == [ok |-> TRUE, v |-> x]

\* accumulate the digits of s onto acc, away from zero in direction sgn,
\* failing on overflow of the 32-bit range
RECURSIVE AccumI32(_, _, _)
AccumI32(acc, s, sgn) ==
    IF s = <<>> THEN Ok(acc)
    ELSE LET d == DigitVal(Head(s)) IN
         IF sgn > 0
         THEN IF acc > 214748364 \/ (acc = 214748364 /\ d > 7)
              THEN Err ELSE AccumI32(acc * 10 + d, Tail(s), sgn)
         ELSE IF acc < -214748364 \/ (acc = -214748364 /\ d > 8)
              THEN Err ELSE AccumI32(acc * 10 - d, Tail(s), sgn)

parse_i32(s) ==
    IF s = <<>> THEN Err
    ELSE LET neg    == Head(s) = "-"
             digits == IF Head(s) \in {"+", "-"} THEN Tail(s) ELSE s
         IN IF digits = <<>> \/ ~AllDigits(digits) THEN Err
            ELSE AccumI32(0, digits, IF neg THEN -1 ELSE 1)

unwrap_or_default_i32(r) == IF r.ok THEN r.v ELSE 0

----------------------------------------------------------------------------
(* f64 *)

S == 1000

F(x)   == [cls |-> "fin", v |-> x]
NaN    == [cls |-> "nan", v |-> 0]
Inf    == [cls |-> "inf", v |-> 0]
NegInf == [cls |-> "ninf", v |-> 0]

IsNaN(a) == a.cls = "nan"
IsFinite(a) == a.cls = "fin"

\* a < b on f64: false as soon as one side is NaN
FLt(a, b) ==
    CASE IsNaN(a) \/ IsNaN(b) -> FALSE
      [] a.cls = "ninf" -> b.cls # "ninf"
      [] a.cls = "inf"  -> FALSE
      [] b.cls = "inf"  -> TRUE
      [] b.cls = "ninf" -> FALSE
      [] OTHER -> a.v < b.v
FGt(a, b) == FLt(b, a)
FLe(a, b) == ~IsNaN(a) /\ ~IsNaN(b) /\ ~FLt(b, a)
FGe(a, b) == FLe(b, a)

Abs(n) == IF n < 0 THEN -n ELSE n
Sgn(n) == IF n < 0 THEN -1 ELSE 1

\* n / d rounded to the nearest integer (d > 0)
Round(n, d) == Sgn(n) * ((Abs(n) + d \div 2) \div d)

\* arithmetic on finite values and NaN (NaN is absorbing)
FMul(a, b) == IF IsNaN(a) \/ IsNaN(b) THEN NaN ELSE F(Round(a.v * b.v, S))
FDiv(a, b) == CASE IsNaN(a) \/ IsNaN(b) -> NaN
                [] b.v = 0 /\ a.v = 0 -> NaN
                [] b.v = 0 /\ a.v > 0 -> Inf
                [] b.v = 0 /\ a.v < 0 -> NegInf
                [] OTHER -> F(Sgn(b.v) * Round(a.v * S, Abs(b.v)))
FSub(a, b) == IF IsNaN(a) \/ IsNaN(b) THEN NaN ELSE F(a.v - b.v)
FNeg(a)    == IF IsNaN(a) THEN NaN ELSE F(-a.v)
FromI32(n) == F(n * S)


\* e^(-1) and ln 2 in units of 1/S
EInv == 368
Ln2  == 693

\* sum of the series of e^(-f), 0 <= f < S, from term number i on, down to
\* the first term below the resolution
RECURSIVE TaylorNeg(_, _, _)
TaylorNeg(f, i, term) ==
    IF term = 0 THEN 0
    ELSE (IF i % 2 = 0 THEN term ELSE -term)
         + TaylorNeg(f, i + 1, Round(term * f, (i + 1) * S))

RECURSIVE EInvPow(_)
EInvPow(n) == IF n = 0 THEN S ELSE Round(EInvPow(n - 1) * EInv, S)

\* e^(-x) for x >= 0: e^(-1) to the integer part times the series of the rest
ExpNeg(x) == Round(EInvPow(x \div S) * TaylorNeg(x % S, 0, S), S)

\* f64::exp
FExp(a) == CASE IsNaN(a) -> NaN
             [] a.v <= 0 -> F(ExpNeg(-a.v))
             [] ExpNeg(a.v) = 0 -> Inf
             [] OTHER -> F(Round(S * S, ExpNeg(a.v)))

\* f64::powf with base 2.0: 2^x = e^(x ln 2)
powf2(x) == FExp(FMul(x, F(Ln2)))

----------------------------------------------------------------------------
(* f64::from_str *)

RECURSIVE DecVal(_)
DecVal(ds) == IF ds = <<>> THEN 0
              ELSE DecVal(SubSeq(ds, 1, Len(ds) - 1)) * 10 + DigitVal(ds[Len(ds)])

\* 0.ds in units of 1/S, w being the weight of the position before Head(ds);
\* the first digit below the resolution rounds
RECURSIVE FracVal(_, _)
FracVal(ds, w) ==
    IF ds = <<>> THEN 0
    ELSE IF w = 1 THEN (IF DigitVal(Head(ds)) >= 5 THEN 1 ELSE 0)
    ELSE DigitVal(Head(ds)) * (w \div 10) + FracVal(Tail(ds), w \div 10)

RECURSIVE Scale10(_, _)
Scale10(v, e) == IF e = 0 THEN v
                 ELSE IF e > 0 THEN Scale10(v * 10, e - 1)
                 ELSE Scale10(Round(v, 10), e + 1)

\* exponent part "e[sign]digits" of a decimal literal: Ok(exponent) or Err
parse_exponent(s) ==
    IF s = <<>> THEN Ok(0)
    ELSE IF Head(s) \notin {"e", "E"} THEN Err
    ELSE LET t  == Tail(s)
             ds == IF t # <<>> /\ Head(t) \in {"+", "-"} THEN Tail(t) ELSE t
         IN IF ds = <<>> \/ ~AllDigits(ds) THEN Err
            ELSE Ok(IF t # <<>> /\ Head(t) = "-" THEN -DecVal(ds) ELSE DecVal(ds))

parse_f64(s) ==
    IF s = <<>> THEN Err
    ELSE LET neg  == Head(s) = "-"
             body == IF Head(s) \in {"+", "-"} THEN Tail(s) ELSE s
             low  == to_ascii_lowercase(body)
             ni   == DigitPrefix(body)
             rest == SubSeq(body, ni + 1, Len(body))
             dot  == rest # <<>> /\ Head(rest) = "."
             rst2 == IF dot THEN Tail(rest) ELSE rest
             nf   == IF dot THEN DigitPrefix(rst2) ELSE 0
             ex   == parse_exponent(SubSeq(rst2, nf + 1, Len(rst2)))
             mant == DecVal(SubSeq(body, 1, ni)) * S + FracVal(SubSeq(rst2, 1, nf), S)
         IN CASE low \in {<<"i", "n", "f">>, <<"i", "n", "f", "i", "n", "i", "t", "y">>} -> Ok(IF neg THEN NegInf ELSE Inf)
              [] low = <<"n", "a", "n">> -> Ok(NaN)
              [] ni + nf = 0 \/ ~ex.ok -> Err
              [] OTHER -> Ok(F((IF neg THEN -1 ELSE 1) * Scale10(mant, ex.v)))

unwrap_or_default_f64(r) == IF r.ok THEN r.v ELSE F(0)

----------------------------------------------------------------------------
(* WineFermentationApp::simulate, the computation *)

\* (sugar_mod, _acidity_mod, tannin_mod)
climate_mods(cl) ==
    CASE to_lowercase(cl) = <<"c", "o", "o", "l">>     -> <<F(900), F(1100), F(1000)>>
      [] to_lowercase(cl) = <<"m", "o", "d", "e", "r", "a", "t", "e">> -> <<F(1000), F(1000), F(1000)>>
      [] to_lowercase(cl) = <<"w", "a", "r", "m">>     -> <<F(1100), F(900), F(1100)>>
      [] OTHER                          -> <<F(1000), F(1000), F(1000)>>

conversion_factor == F(16830)
ref_temp == F(20000)
k_ref == F(200)
max_abv == F(15000)

FailureMessage ==
    [text |-> "Fermentation failed: temperature out of range for yeast activity.",
     args |-> <<>>]

\* variant: the lower limit is not tested
temperature_above_range_only(t) == FGt(t, F(40000))

\* variant: the limits themselves are rejected
temperature_on_or_out_of_range(t) == FLe(t, F(5000)) \/ FGe(t, F(40000))

\* the guard of the early return
temperature_out_of_range(t) == FLt(t, F(5000)) \/ FGt(t, F(40000))

rate_k(t) == FMul(k_ref, powf2(FDiv(FSub(t, ref_temp), F(10000))))

fraction_after(k, days) ==
    LET fraction_fermented == FSub(F(1000), FExp(FMul(FNeg(k), FromI32(days))))
    IN IF FGt(fraction_fermented, F(1000)) THEN F(1000) ELSE fraction_fermented

\* variant: the cap leaves fraction_fermented as it was
abv_cap_stale_fraction(actual_abv, fraction_fermented, sugar) ==
    IF FGt(actual_abv, max_abv)
    THEN [actual_abv |-> max_abv, fraction_fermented |-> fraction_fermented]
    ELSE [actual_abv |-> actual_abv, fraction_fermented |-> fraction_fermented]

\* the ABV cap: the pair (actual_abv, fraction_fermented) after the if
abv_cap(actual_abv, fraction_fermented, sugar) ==
    IF FGt(actual_abv, max_abv)
    THEN LET sugar_consumed_capped == FMul(max_abv, conversion_factor)
         IN [actual_abv |-> max_abv,
             fraction_fermented |-> FDiv(sugar_consumed_capped, sugar)]
    ELSE [actual_abv |-> actual_abv, fraction_fermented |-> fraction_fermented]

sweetness_description(residual_sugar) ==
    IF FGt(residual_sugar, F(35000)) THEN "extremely sweet"
    ELSE IF FGt(residual_sugar, F(20000)) THEN "noticeably sweet"
    ELSE IF FGt(residual_sugar, F(5000)) THEN "with just a subtle hint of sweetness"
    ELSE "bone dry"

body_description(actual_abv) ==
    IF FGt(actual_abv, F(12000)) THEN "full-bodied"
    ELSE IF FGe(actual_abv, F(10000)) THEN "medium-bodied"
    ELSE "light-bodied"

alcohol_level(actual_abv) ==
    IF FLe(actual_abv, F(1000)) THEN "extremely low"
    ELSE IF FLt(actual_abv, F(5000)) THEN "very low"
    ELSE IF FLt(actual_abv, F(10000)) THEN "low"
    ELSE IF FLt(actual_abv, F(13500)) THEN "moderate"
    ELSE IF FLt(actual_abv, F(15000)) THEN "high"
    ELSE IF FLt(actual_abv, F(20000)) THEN "very high"
    ELSE "extremely high"

tannin_base(grape) ==
    LET g == to_lowercase(grape) IN
    CASE g = <<"c", "a", "b", "e", "r", "n", "e", "t", " ", "s", "a", "u", "v", "i", "g", "n", "o", "n">> -> "robust, high tannins"
      [] g = <<"m", "e", "r", "l", "o", "t">> -> "smooth, moderate tannins"
      [] g = <<"p", "i", "n", "o", "t", " ", "n", "o", "i", "r">> -> "delicate, low tannins"
      [] g \in {<<"s", "y", "r", "a", "h">>, <<"s", "h", "i", "r", "a", "z">>} -> "moderate tannins"
      [] g = <<"t", "e", "m", "p", "r", "a", "n", "i", "l", "l", "o">> -> "moderate tannins"
      [] g = <<"z", "i", "n", "f", "a", "n", "d", "e", "l">> -> "spicy, moderately high tannins"
      [] g = <<"s", "a", "n", "g", "i", "o", "v", "e", "s", "e">> -> "moderate tannins"
      [] g = <<"c", "h", "a", "r", "d", "o", "n", "n", "a", "y">> -> "minimal tannins"
      [] g = <<"s", "a", "u", "v", "i", "g", "n", "o", "n", " ", "b", "l", "a", "n", "c">> -> "minimal tannins"
      [] g = <<"r", "i", "e", "s", "l", "i", "n", "g">> -> "very minimal tannins"
      [] OTHER -> "unknown tannin levels"

\* the formatted pair (tannin_base, suffix)
tannin_level(tannin_mod, base) ==
    IF FGt(tannin_mod, F(1000))
    THEN <<base, " (slightly accentuated by the warm climate)">>
    ELSE IF FLt(tannin_mod, F(1000))
    THEN <<base, " (somewhat less pronounced in the cool climate)">>
    ELSE <<base, "">>

acidity_description(cl) ==
    CASE to_lowercase(cl) = <<"c", "o", "o", "l">>     -> "high"
      [] to_lowercase(cl) = <<"m", "o", "d", "e", "r", "a", "t", "e">> -> "moderate"
      [] to_lowercase(cl) = <<"w", "a", "r", "m">>     -> "low"
      [] OTHER                          -> "unknown"

container_note(container) ==
    LET container_lower == to_lowercase(container) IN
    CASE container_lower = <<"o", "a", "k", " ", "b", "a", "r", "r", "e", "l">>   -> "woody, oaky undertones"
      [] container_lower = <<"s", "t", "e", "e", "l", " ", "t", "a", "n", "k">>   -> "a pristine, clean character"
      [] container_lower = <<"c", "l", "a", "y", " ", "a", "m", "p", "h", "o", "r", "a">> -> "earthy nuances"
      [] OTHER                             -> "a distinct vessel charm"

\* the records of the table whose grape matches, in table order
matches(data, grape) ==
    SelectSeq(data, LAMBDA record : eq_ignore_ascii_case(record.grape, grape))

UnknownFlavor == <<"u", "n", "k", "n", "o", "w", "n", " ", "f", "l", "a", "v", "o", "r", " ", "p", "r", "o", "f", "i", "l", "e">>

None == [some |-> FALSE]
Some(x) == [some |-> TRUE, v |-> x]

\* slice::choose: None on an empty slice, else any element
choose(m) == IF m = <<>> THEN {None} ELSE {Some(m[i]) : i \in 1..Len(m)}

\* the possible values of grape_characteristics; a None that reaches
\* unwrap() is the panic
grape_characteristics(data, grape) ==
    LET m == matches(data, grape) IN
    IF m = <<>> THEN {Some(UnknownFlavor)}
    ELSE {IF c.some THEN Some(c.v.characteristics) ELSE None : c \in choose(m)}

\* {:.1}: one decimal, ties to even; the value is counted in tenths
Fmt1(a) ==
    IF ~IsFinite(a) THEN a
    ELSE LET d == S \div 10
             q == Abs(a.v) \div d
             r == Abs(a.v) % d
             n == IF 2 * r > d \/ (2 * r = d /\ q % 2 = 1) THEN q + 1 ELSE q
         IN F(Sgn(a.v) * n)

SummaryFormat ==
    "Your {} wine was fermented over {} days in a {} that adds {}. The initial sugar level was {:.1} g/L (adjusted for a {} climate), which could have reached a potential of {:.1}% ABV.\n\nFermenting at {}°C, about {:.1}% of that potential was met, resulting in a final ABV of {:.1}%% and leaving behind a residual sugar of {:.1} g/L, making it {}.\n\nThe wine is {} in body, with {} tannins and {} acidity. It shows hints of {} in its flavor profile.\n\nThe alcohol content is classified as {}.\n\nEnjoy your wine."

\* the locals of simulate up to the early return
locals_early(days_s, sugar_s, temp_s, cl) ==
    LET days             == unwrap_or_default_i32(parse_i32(trim(days_s)))
        user_sugar_input == unwrap_or_default_i32(parse_i32(trim(sugar_s)))
        temp             == unwrap_or_default_f64(parse_f64(trim(temp_s)))
        mods             == climate_mods(cl)
        sugar            == FMul(FromI32(user_sugar_input), mods[1])
    IN [fermentation_days |-> days,
        user_sugar_input  |-> user_sugar_input,
        temperature       |-> temp,
        sugar_mod         |-> mods[1],
        tannin_mod        |-> mods[3],
        sugar_content     |-> sugar,
        potential_abv     |-> FDiv(sugar, conversion_factor)]

\* the locals of simulate after the early return, e being locals_early
locals_late(e) ==
    LET k                == rate_k(e.temperature)
        fraction0        == fraction_after(k, e.fermentation_days)
        sugar_consumed   == FMul(fraction0, e.sugar_content)
        abv0             == FDiv(sugar_consumed, conversion_factor)
        capped           == abv_cap(abv0, fraction0, e.sugar_content)
        residual_sugar   == FSub(e.sugar_content, sugar_consumed)
    IN [k                  |-> k,
        sugar_consumed     |-> sugar_consumed,
        uncapped_abv       |-> abv0,
        actual_abv         |-> capped.actual_abv,
        fraction_fermented |-> capped.fraction_fermented,
        residual_sugar     |-> residual_sugar,
        sweetness_description |-> sweetness_description(residual_sugar),
        body_description   |-> body_description(capped.actual_abv),
        alcohol_level      |-> alcohol_level(capped.actual_abv)]

\* the format! call, note being the chosen grape_characteristics
summary_text(grape, container, cl, e, l, note) ==
    [text |-> SummaryFormat,
     args |-> << grape,
                 e.fermentation_days,
                 container,
                 container_note(container),
                 Fmt1(e.sugar_content),
                 to_lowercase(cl),
                 Fmt1(e.potential_abv),
                 e.temperature,
                 Fmt1(FMul(l.fraction_fermented, F(100000))),
                 Fmt1(l.actual_abv),
                 Fmt1(l.residual_sugar),
                 l.sweetness_description,
                 l.body_description,
                 tannin_level(e.tannin_mod, tannin_base(grape)),
                 acidity_description(cl),
                 to_ascii_lowercase(note),
                 l.alcohol_level >>]

----------------------------------------------------------------------------
(* load_csv_data_from_str and main *)

GrapeColumn == <<"G", "r", "a", "p", "e">>
CharacteristicsColumn == <<"C", "h", "a", "r", "a", "c", "t", "e", "r", "i", "s", "t", "i", "c", "s">>

\* one row deserialized into a WineRecord by header name; a row whose number
\* of fields differs from the header's, or a missing column, is an error
deserialize(headers, row) ==
    IF Len(row) # Len(headers) THEN Err
    ELSE IF IndexIn(GrapeColumn, headers) = 0
            \/ IndexIn(CharacteristicsColumn, headers) = 0 THEN Err
    ELSE Ok([grape           |-> row[IndexIn(GrapeColumn, headers)],
             characteristics |-> row[IndexIn(CharacteristicsColumn, headers)]])

\* variant: a row that fails to deserialize is skipped
RECURSIVE load_rows_skipping(_, _, _)
load_rows_skipping(headers, rows, records) ==
    IF rows = <<>> THEN Ok(records)
    ELSE LET result == deserialize(headers, Head(rows)) IN
         IF ~result.ok THEN load_rows_skipping(headers, Tail(rows), records)
         ELSE load_rows_skipping(headers, Tail(rows), Append(records, result.v))

\* the loop over rdr.deserialize(): `result?` returns the first error
RECURSIVE load_rows(_, _, _)
load_rows(headers, rows, records) ==
    IF rows = <<>> THEN Ok(records)
    ELSE LET result == deserialize(headers, Head(rows)) IN
         IF ~result.ok THEN Err
         ELSE load_rows(headers, Tail(rows), Append(records, result.v))

load_csv_data_from_str(data) == load_rows(data.headers, data.rows, <<>>)

\* the match in main
main_wine_data(data) ==
    LET r == load_csv_data_from_str(data) IN IF r.ok THEN r.v ELSE <<>>

----------------------------------------------------------------------------
(* Input domains *)

MaxRows == 2

Headers == { <<GrapeColumn, CharacteristicsColumn>>,
             <<CharacteristicsColumn, GrapeColumn>>,
             <<GrapeColumn, <<"N", "o", "t", "e", "s">>>> }

RowMerlot == <<<<"M", "e", "r", "l", "o", "t">>, <<"P", "l", "u", "m", ",", " ", "C", "h", "e", "r", "r", "y">>>>
RowMERLOT == <<<<"M", "E", "R", "L", "O", "T">>, <<"C", "o", "c", "o", "a">>>>
RowSyrah  == <<<<"S", "y", "r", "a", "h">>, <<"B", "l", "a", "c", "k", " ", "P", "e", "p", "p", "e", "r">>>>
RowShort  == <<<<"R", "i", "e", "s", "l", "i", "n", "g">>>>
RowLong   == <<<<"R", "i", "e", "s", "l", "i", "n", "g">>, <<"L", "i", "m", "e">>, <<"x">>>>

RowKinds == {RowMerlot, RowSyrah, RowShort, RowLong}

RowSeqs == UNION {[1..n -> RowKinds] : n \in 0..MaxRows}

Datasets == [headers : Headers, rows : RowSeqs]

\* the datasets the application runs are started with
AppDatasets ==
    { [headers |-> <<GrapeColumn, CharacteristicsColumn>>,
       rows    |-> <<RowMerlot, RowMERLOT, RowSyrah>>],
      [headers |-> <<GrapeColumn, CharacteristicsColumn>>,
       rows    |-> <<RowMerlot, RowShort, RowSyrah>>] }

\* the entries of the three ComboBoxes
GrapeOptions == { <<"C", "a", "b", "e", "r", "n", "e", "t", " ", "S", "a", "u", "v", "i", "g", "n", "o", "n">>, <<"M", "e", "r", "l", "o", "t">>, <<"P", "i", "n", "o", "t", " ", "N", "o", "i", "r">>, <<"C", "h", "a", "r", "d", "o", "n", "n", "a", "y">>,
                  <<"S", "a", "u", "v", "i", "g", "n", "o", "n", " ", "B", "l", "a", "n", "c">>, <<"R", "i", "e", "s", "l", "i", "n", "g">>, <<"S", "y", "r", "a", "h">>, <<"S", "h", "i", "r", "a", "z">>,
                  <<"Z", "i", "n", "f", "a", "n", "d", "e", "l">>, <<"T", "e", "m", "p", "r", "a", "n", "i", "l", "l", "o">>, <<"S", "a", "n", "g", "i", "o", "v", "e", "s", "e">> }
ContainerOptions == { <<"O", "a", "k", " ", "B", "a", "r", "r", "e", "l">>, <<"S", "t", "e", "e", "l", " ", "T", "a", "n", "k">>, <<"C", "l", "a", "y", " ", "A", "m", "p", "h", "o", "r", "a">> }
ClimateOptions == { <<"C", "o", "o", "l">>, <<"M", "o", "d", "e", "r", "a", "t", "e">>, <<"W", "a", "r", "m">> }

\* what the user selects and types in the runs of the application
GrapeSelected     == { <<"M", "e", "r", "l", "o", "t">>, <<"C", "h", "a", "r", "d", "o", "n", "n", "a", "y">> }
ContainerSelected == { <<"O", "a", "k", " ", "B", "a", "r", "r", "e", "l">> }
ClimateSelected   == { <<"W", "a", "r", "m">> }
DaysTyped         == { <<"1", "4">> }
SugarTyped        == { <<"3", "0", "0">> }
TemperatureTyped  == { <<"2", "2">>, <<"4", "5">> }
ResultTyped       == { [text |-> "tasting notes", args |-> <<>>] }

\* the field contents simulate is applied to as a function
GrapeInputs       == { <<>>, <<"M", "e", "r", "l", "o", "t">>, <<"m", "e", "r", "l", "o", "t">>, <<"S", "y", "r", "a", "h">> }
DaysInputs        == { <<>>, <<"1", "4">>, <<" ", "7", " ">>, <<"-", "2">>, <<"3", "x">> }
ContainerInputs   == { <<>>, <<"O", "a", "k", " ", "B", "a", "r", "r", "e", "l">> }
SugarInputs       == { <<>>, <<"2", "2", "0">>, <<"3", "0", "0">>, <<"-", "1", "0", "0">>, <<"9", "9", "9", "9", "9", "9", "9", "9", "9", "9", "9">> }
TemperatureInputs == { <<>>, <<"2", "2">>, <<" ", "5">>, <<"4", ".", "9">>, <<"4", "0">>, <<"4", "0", ".", "5">>, <<"N", "a", "N">>,
                       <<"i", "n", "f">>, <<"1", "e", "1">> }
ClimateInputs     == { <<>>, <<"C", "o", "o", "l">>, <<"W", "a", "r", "m">> }

EmptyText == [text |-> "", args |-> <<>>]
PriorTexts == { EmptyText, FailureMessage } \cup ResultTyped

----------------------------------------------------------------------------
(* The application *)

NoLocals == [returned |-> "never"]

\* main before load_csv_data_from_str; the fields are those of new()
Init ==
    /\ pc = "main"
    /\ csv \in AppDatasets
    /\ wine_data = <<>>
    /\ grape_type = <<>>
    /\ fermentation_days = <<>>
    /\ container_type = <<>>
    /\ sugar_content = <<>>
    /\ temperature = <<>>
    /\ climate = <<>>
    /\ result_text = EmptyText
    /\ op = "none"
    /\ locals = NoLocals
    /\ previous = ""

\* main: load the dataset, construct the application
main ==
    /\ pc = "main"
    /\ wine_data' = main_wine_data(csv)
    /\ pc' = "running"
    /\ UNCHANGED <<csv, fields, result_text, op, locals, previous>>

select_grape ==
    /\ pc = "running"
    /\ grape_type' \in GrapeSelected
    /\ op' = "edit"
    /\ UNCHANGED <<csv, pc, wine_data, fermentation_days, container_type,
                   sugar_content, temperature, climate, result_text, locals, previous>>

edit_days ==
    /\ pc = "running"
    /\ fermentation_days' \in DaysTyped
    /\ op' = "edit"
    /\ UNCHANGED <<csv, pc, wine_data, grape_type, container_type,
                   sugar_content, temperature, climate, result_text, locals, previous>>

select_container ==
    /\ pc = "running"
    /\ container_type' \in ContainerSelected
    /\ op' = "edit"
    /\ UNCHANGED <<csv, pc, wine_data, grape_type, fermentation_days,
                   sugar_content, temperature, climate, result_text, locals, previous>>

select_climate ==
    /\ pc = "running"
    /\ climate' \in ClimateSelected
    /\ op' = "edit"
    /\ UNCHANGED <<csv, pc, wine_data, grape_type, fermentation_days,
                   container_type, sugar_content, temperature, result_text, locals, previous>>

edit_sugar ==
    /\ pc = "running"
    /\ sugar_content' \in SugarTyped
    /\ op' = "edit"
    /\ UNCHANGED <<csv, pc, wine_data, grape_type, fermentation_days,
                   container_type, temperature, climate, result_text, locals, previous>>

edit_temperature ==
    /\ pc = "running"
    /\ temperature' \in TemperatureTyped
    /\ op' = "edit"
    /\ UNCHANGED <<csv, pc, wine_data, grape_type, fermentation_days,
                   container_type, sugar_content, climate, result_text, locals, previous>>

\* the result box is an editable text field
edit_result ==
    /\ pc = "running"
    /\ result_text' \in ResultTyped
    /\ op' = "edit"
    /\ UNCHANGED <<csv, pc, wine_data, fields, locals, previous>>

\* variant: the early return leaves result_text as it was
simulate_stale ==
    /\ pc = "running"
    /\ LET e == locals_early(fermentation_days, sugar_content, temperature, climate) IN
       IF temperature_out_of_range(e.temperature)
       THEN /\ result_text' = result_text
            /\ locals' = [returned |-> "early", e |-> e]
            /\ pc' = pc
       ELSE \E c \in grape_characteristics(wine_data, grape_type) :
               IF c.some
               THEN LET l == locals_late(e) IN
                    /\ result_text' = summary_text(grape_type, container_type,
                                                   climate, e, l, c.v)
                    /\ locals' = [returned |-> "end", e |-> e, l |-> l,
                                  grape_characteristics |-> c.v]
                    /\ pc' = pc
               ELSE /\ pc' = "panicked"
                    /\ UNCHANGED <<result_text, locals>>
    /\ previous' = result_text.text
    /\ op' = "simulate"
    /\ UNCHANGED <<csv, wine_data, fields>>

\* the click on "Simulate Wine Fermentation"
simulate ==
    /\ pc = "running"
    /\ LET e == locals_early(fermentation_days, sugar_content, temperature, climate) IN
       IF temperature_out_of_range(e.temperature)
       THEN /\ result_text' = FailureMessage
            /\ locals' = [returned |-> "early", e |-> e]
            /\ pc' = pc
       ELSE \E c \in grape_characteristics(wine_data, grape_type) :
               IF c.some
               THEN LET l == locals_late(e) IN
                    /\ result_text' = summary_text(grape_type, container_type,
                                                   climate, e, l, c.v)
                    /\ locals' = [returned |-> "end", e |-> e, l |-> l,
                                  grape_characteristics |-> c.v]
                    /\ pc' = pc
               ELSE /\ pc' = "panicked"
                    /\ UNCHANGED <<result_text, locals>>
    /\ previous' = result_text.text
    /\ op' = "simulate"
    /\ UNCHANGED <<csv, wine_data, fields>>

Next ==
    \/ main
    \/ select_grape
    \/ edit_days
    \/ select_container
    \/ select_climate
    \/ edit_sugar
    \/ edit_temperature
    \/ edit_result
    \/ simulate

Spec == Init /\ [][Next]_vars

\* main alone, over every dataset
InitLoad ==
    /\ pc = "main"
    /\ csv \in Datasets
    /\ wine_data = <<>>
    /\ grape_type = <<>>
    /\ fermentation_days = <<>>
    /\ container_type = <<>>
    /\ sugar_content = <<>>
    /\ temperature = <<>>
    /\ climate = <<>>
    /\ result_text = EmptyText
    /\ op = "none"
    /\ locals = NoLocals
    /\ previous = ""

NextLoad == main

SpecLoad == InitLoad /\ [][NextLoad]_vars

\* simulate as a function of the form: any field contents, any earlier result
InitCalc ==
    /\ pc = "running"
    /\ csv \in AppDatasets
    /\ wine_data = main_wine_data(csv)
    /\ grape_type \in GrapeInputs
    /\ fermentation_days \in DaysInputs
    /\ container_type \in ContainerInputs
    /\ sugar_content \in SugarInputs
    /\ temperature \in TemperatureInputs
    /\ climate \in ClimateInputs
    /\ result_text \in PriorTexts
    /\ op = "none"
    /\ locals = NoLocals
    /\ previous = ""

NextCalc == simulate

SpecCalc == InitCalc /\ [][NextCalc]_vars

----------------------------------------------------------------------------
(* Properties *)

\* the temperature simulate parses from the field
ParsedTemperature == unwrap_or_default_f64(parse_f64(trim(temperature)))

Below5OrAbove40 ==
    FLt(ParsedTemperature, F(5000)) \/ FGt(ParsedTemperature, F(40000))
Within5And40 ==
    FGe(ParsedTemperature, F(5000)) /\ FLe(ParsedTemperature, F(40000))

\* simulate has returned on the fields of this state
Called == op = "simulate" /\ pc = "running"
\* ... with a summary
Numeric == Called /\ locals.returned = "end"

\* |a - b| <= slack on finite values
Near(a, b, slack) == IsFinite(a) /\ IsFinite(b) /\ Abs(a.v - b.v) <= slack

\* one step of rounding of a fraction, carried to grams per litre and to % ABV
SugarSlack == S \div 2
AbvSlack   == S \div 20

EffectiveSugar == locals.e.sugar_content

\* C1: after simulate with a parsed temperature below 5 or above 40,
\* result_text is exactly the failure message, whatever the other fields and
\* the earlier result_text are.
C1_FailureOutsideRange ==
    (Called /\ Below5OrAbove40) => result_text = FailureMessage

C1_Witness ==
    /\ Called
    /\ FGt(ParsedTemperature, F(40000))
    /\ IsFinite(ParsedTemperature)
    /\ sugar_content = <<"3", "0", "0">>
    /\ fermentation_days = <<"1", "4">>
    /\ previous = "tasting notes"
    /\ result_text = FailureMessage

\* C2: in every summary with temperature in [5,40], capped or not, the
\* residual sugar is effective sugar minus reported fraction times effective
\* sugar (up to the rounding of one operation).  Stated on the inputs of the
\* data model, days >= 0 and sugar >= 0, where it already fails.
C2_ResidualFromReportedFraction ==
    (/\ Numeric
     /\ Within5And40
     /\ locals.e.fermentation_days >= 0
     /\ locals.e.user_sugar_input >= 0) =>
        Near(locals.l.residual_sugar,
             FSub(EffectiveSugar, FMul(locals.l.fraction_fermented, EffectiveSugar)),
             SugarSlack)

\* C3: when the uncapped ABV exceeds 15.0 the reported ABV is exactly 15.0 and
\* the reported fraction is (15.0 * 16.83) / effective sugar; in every summary
\* with temperature in [5,40] the reported ABV is the reported fraction times
\* effective sugar over 16.83, up to the rounding of one operation.
C3_CapKeepsAbvAndFractionConsistent ==
    (Numeric /\ Within5And40) =>
        /\ FGt(locals.l.uncapped_abv, F(15000)) =>
              /\ locals.l.actual_abv = F(15000)
              /\ locals.l.fraction_fermented
                    = FDiv(FMul(F(15000), F(16830)), EffectiveSugar)
        /\ ~FGt(locals.l.uncapped_abv, F(15000)) =>
              locals.l.actual_abv = locals.l.uncapped_abv
        /\ Near(locals.l.actual_abv,
                FDiv(FMul(locals.l.fraction_fermented, EffectiveSugar), F(16830)),
                AbvSlack)

C3_Witness ==
    /\ Numeric
    /\ Within5And40
    /\ FGt(locals.l.uncapped_abv, F(17000))
    /\ locals.l.actual_abv = F(15000)

\* C4: in every summary with temperature in [5,40] the residual sugar is >= 0.
C4_ResidualNonNegative ==
    (Numeric /\ Within5And40) => FGe(locals.l.residual_sugar, F(0))

\* C5: in every summary with temperature in [5,40] the fraction fermented is
\* in [0,1].
C5_FractionInUnitInterval ==
    (Numeric /\ Within5And40) =>
        /\ FGe(locals.l.fraction_fermented, F(0))
        /\ FLe(locals.l.fraction_fermented, F(1000))

\* C6: simulate never panics (no None reaches unwrap); it leaves either the
\* failure message or a summary; the failure message only when the parsed
\* temperature is below 5 or above 40; a days, sugar or temperature field
\* that does not parse counts as 0.
C6_TotalWithOneFailure ==
    /\ pc # "panicked"
    /\ Called =>
          /\ result_text = FailureMessage \/ result_text.text = SummaryFormat
          /\ result_text = FailureMessage => Below5OrAbove40
          /\ ~parse_i32(trim(fermentation_days)).ok => locals.e.fermentation_days = 0
          /\ ~parse_i32(trim(sugar_content)).ok => locals.e.user_sugar_input = 0
          /\ ~parse_f64(trim(temperature)).ok => locals.e.temperature = F(0)

C6_Witness ==
    /\ Called
    /\ fermentation_days = <<"3", "x">>
    /\ sugar_content = <<"9", "9", "9", "9", "9", "9", "9", "9", "9", "9", "9">>
    /\ grape_type = <<>>
    /\ temperature = <<" ", "5">>
    /\ result_text.text = SummaryFormat

\* the records of the rows of data that deserialize, in order
RECURSIVE WellFormedRecords(_, _)
WellFormedRecords(headers, rows) ==
    IF rows = <<>> THEN <<>>
    ELSE (IF deserialize(headers, Head(rows)).ok
          THEN <<deserialize(headers, Head(rows)).v>> ELSE <<>>)
         \o WellFormedRecords(headers, Tail(rows))

AllRowsWellFormed ==
    \A i \in 1..Len(csv.rows) : deserialize(csv.headers, csv.rows[i]).ok

\* C7 as stated: after startup the table holds exactly the well-formed rows
\* of the dataset, in order.
C7_MalformedRowsSkipped ==
    pc = "running" => wine_data = WellFormedRecords(csv.headers, csv.rows)

\* C7 amended: the load is all or nothing.  When every row is well-formed the
\* table holds every row, in order; as soon as one row is malformed the table
\* is empty.
C7_LoadAllOrNothing ==
    pc = "running" =>
        IF AllRowsWellFormed
        THEN wine_data = [i \in 1..Len(csv.rows) |->
                             deserialize(csv.headers, csv.rows[i]).v]
        ELSE wine_data = <<>>

C7_Witness ==
    /\ pc = "running"
    /\ Len(csv.rows) = 2
    /\ deserialize(csv.headers, csv.rows[1]).ok
    /\ ~deserialize(csv.headers, csv.rows[2]).ok
    /\ wine_data = <<>>

\* the characteristics of the records whose grape is g up to ASCII case
MatchingNotes(g) ==
    { wine_data[i].characteristics : i \in
        { j \in 1..Len(wine_data) :
            to_ascii_lowercase(wine_data[j].grape) = to_ascii_lowercase(g) } }

\* C8: the flavor note of a summary is the characteristics of one of the
\* records whose grape equals the grape field up to ASCII case, or the
\* sentinel when there is none (the text shows it in lower case); grape fields
\* that differ only in case have the same possible notes.
C8_NoteFromMatchingSet ==
    /\ Numeric =>
          /\ MatchingNotes(grape_type) # {} =>
                locals.grape_characteristics \in MatchingNotes(grape_type)
          /\ MatchingNotes(grape_type) = {} =>
                locals.grape_characteristics = UnknownFlavor
          /\ result_text.args[16] = to_ascii_lowercase(locals.grape_characteristics)
    /\ pc = "running" =>
          /\ \A g \in GrapeInputs :
                { c.v : c \in grape_characteristics(wine_data, g) }
                   = IF MatchingNotes(g) = {} THEN {UnknownFlavor} ELSE MatchingNotes(g)
          /\ grape_characteristics(wine_data, <<"m", "e", "r", "l", "o", "t">>)
                = grape_characteristics(wine_data, <<"M", "e", "r", "l", "o", "t">>)

C8_Witness ==
    /\ Numeric
    /\ grape_type = <<"m", "e", "r", "l", "o", "t">>
    /\ locals.grape_characteristics = <<"C", "o", "c", "o", "a">>

\* C9: in every summary the reported ABV is at most 15.0, "extremely high" is
\* never reported, and "very high" is reported exactly when the ABV is 15.0.
C9_AbvAtMost15 ==
    Numeric =>
        /\ FLe(locals.l.actual_abv, F(15000))
        /\ locals.l.alcohol_level # "extremely high"
        /\ locals.l.alcohol_level = "very high" <=> locals.l.actual_abv = F(15000)

\* the texts simulate can leave for the given fields and table
Outcomes(grape, days_s, container, sugar_s, temp_s, cl, data) ==
    LET e == locals_early(days_s, sugar_s, temp_s, cl) IN
    IF FLt(e.temperature, F(5000)) \/ FGt(e.temperature, F(40000))
    THEN {FailureMessage}
    ELSE { summary_text(grape, container, cl, e, locals_late(e), c.v) :
             c \in grape_characteristics(data, grape) }

\* C10: a call of simulate leaves the six fields and the table as they were,
\* and the result_text it leaves is one of the texts that the fields and the
\* table determine, whatever result_text held before.
C10_SimulateFrame ==
    [][op' = "simulate" =>
          /\ fields' = fields
          /\ wine_data' = wine_data
          /\ csv' = csv
          /\ result_text' \in Outcomes(grape_type, fermentation_days,
                                      container_type, sugar_content,
                                      temperature, climate, wine_data)]_vars

\* a failure has replaced a summary
C10_Witness ==
    /\ Called
    /\ previous = SummaryFormat
    /\ result_text = FailureMessage
    /\ temperature = <<"4", "5">>

====
